---- MODULE Spec2Model ----
(***************************************************************************)
(* A model of repoed.py: the ignore-pattern engine (is_ignored), the file  *)
(* discovery (gather_source_files) and the document assembly (main).       *)
(*                                                                         *)
(* Text is modelled as a sequence of one-character strings, so that        *)
(* prefix tests, stripping, glob matching and lexicographic sorting are    *)
(* computed character by character, as the Python code computes them.      *)
(***************************************************************************)
EXTENDS Integers, Sequences, FiniteSets, TLC

VARIABLES
    pc,               \* control position of the run
    file_path,        \* is_ignored: the path argument
    ignore_patterns,  \* is_ignored: the pattern list; main: the list read from .gitignore
    idx,              \* is_ignored: position of the for loop in ignore_patterns
    ignore,           \* is_ignored: the running flag
    fs,               \* the working directory's snapshot
    git,              \* the revision-history provider (git executable and history)
    commits,          \* main: the list get_git_commits returned
    outfile,          \* main: the lines written to repoed.md so far
    pending,          \* gather_source_files: entries os.walk has still to report
    source_files,     \* gather_source_files / main: the discovered list
    gathered,         \* the list gather_source_files returned, before main sorted it
    cursor            \* main: position of the rendering loop in source_files

vars == <<pc, file_path, ignore_patterns, idx, ignore, fs, git, commits,
          outfile, pending, source_files, gathered, cursor>>

----------------------------------------------------------------------------
(* Bounds of the model.                                                    *)

MaxPatLen == 3
MaxPathLen == 3
MaxPatterns == 3
MaxFiles == 3

\* git log -n 3
MaxCommits == 3

----------------------------------------------------------------------------
(* Text helpers (Python str methods on sequences of characters).           *)

SEP == "/"

StartsWith(s, p) == Len(p) <= Len(s) /\ SubSeq(s, 1, Len(p)) = p

EndsWith(s, p) == Len(p) <= Len(s) /\ SubSeq(s, Len(s) - Len(p) + 1, Len(s)) = p

Contains(s, c) == \E i \in 1..Len(s) : s[i] = c

RECURSIVE RStrip(_, _)
\* str.rstrip(chars): drop every trailing character that is in chars
RStrip(s, chars) ==
    IF s # <<>> /\ s[Len(s)] \in chars THEN RStrip(SubSeq(s, 1, Len(s) - 1), chars) ELSE s

RECURSIVE LStrip(_, _)
LStrip(s, chars) ==
    IF s # <<>> /\ s[1] \in chars THEN LStrip(Tail(s), chars) ELSE s

\* A character is a one-character string when it is ASCII; a character beyond
\* ASCII is written by its code point ("U+00A0"), since the module is read
\* byte by byte and raw ones would not be told apart.  Any other string
\* ("U+00E9") is an ordinary character.

\* the white space beyond ASCII (str.isspace): \x85, \xa0, U+1680,
\* U+2000-U+200A, U+2028, U+2029, U+202F, U+205F, U+3000
UnicodeSpaces ==
    {"U+0085", "U+00A0", "U+1680", "U+2000", "U+2001", "U+2002", "U+2003",
     "U+2004", "U+2005", "U+2006", "U+2007", "U+2008", "U+2009", "U+200A",
     "U+2028", "U+2029", "U+202F", "U+205F", "U+3000"}

\* what str.strip() removes: space, \t, \n, \v, \f, \r, the separators
\* \x1c-\x1f, and the white space beyond ASCII
Whitespace ==
    {" ", "\t", "\n", "", "\f", "\r", "", "", "", ""}
        \cup UnicodeSpaces

\* str.strip()
Strip(s) == LStrip(RStrip(s, Whitespace), Whitespace)

\* os.path.basename on POSIX: what follows the last separator
Basename(s) ==
    LET cuts == {i \in 1..Len(s) : s[i] = SEP}
    IN  IF cuts = {} THEN s
        ELSE SubSeq(s, (CHOOSE i \in cuts : \A j \in cuts : j <= i) + 1, Len(s))

----------------------------------------------------------------------------
(* fnmatch.fnmatch (the Python standard library's shell-style matcher, as   *)
(* is_ignored calls it).  translate() turns the pattern into a list of      *)
(* pieces: STAR, one-character pieces ('?', a literal, a [...] class).      *)
(* Patterns of the model hold no '-' and no backslash, so a class is a      *)
(* plain set of characters, negated by a leading '!'.                       *)

STAR == [kind |-> "star", neg |-> FALSE, chars |-> {}]

\* '?': any one character ('.' under (?s))
AnyChar == [kind |-> "one", neg |-> TRUE, chars |-> {}]

Literal(c) == [kind |-> "one", neg |-> FALSE, chars |-> {c}]

\* [stuff]: a leading '!' negates the class; every other character is a member
CharClass(stuff) ==
    IF stuff # <<>> /\ stuff[1] = "!"
    THEN [kind |-> "one", neg |-> TRUE, chars |-> {stuff[k] : k \in 2..Len(stuff)}]
    ELSE [kind |-> "one", neg |-> FALSE, chars |-> {stuff[k] : k \in 1..Len(stuff)}]

\* the index of the ']' that closes the class opened at pat[i], or Len(pat) + 1
ClassEnd(pat, i) ==
    LET n  == Len(pat)
        j0 == i + 1
        j1 == IF j0 <= n /\ pat[j0] = "!" THEN j0 + 1 ELSE j0
        j2 == IF j1 <= n /\ pat[j1] = "]" THEN j1 + 1 ELSE j1
        closers == {j \in j2..n : pat[j] = "]"}
    IN  IF closers = {} THEN n + 1
        ELSE CHOOSE j \in closers : \A k \in closers : j <= k

RECURSIVE TranslateFrom(_, _, _)
TranslateFrom(pat, i, res) ==
    IF i > Len(pat) THEN res
    ELSE IF pat[i] = "*"
    THEN \* consecutive '*' are compressed into one
         IF res # <<>> /\ res[Len(res)] = STAR
         THEN TranslateFrom(pat, i + 1, res)
         ELSE TranslateFrom(pat, i + 1, Append(res, STAR))
    ELSE IF pat[i] = "?"
    THEN TranslateFrom(pat, i + 1, Append(res, AnyChar))
    ELSE IF pat[i] = "["
    THEN LET j == ClassEnd(pat, i)
         IN  IF j > Len(pat)
             THEN \* no closing ']': the '[' is an ordinary character
                  TranslateFrom(pat, i + 1, Append(res, Literal("[")))
             ELSE TranslateFrom(pat, j + 1,
                                Append(res, CharClass(SubSeq(pat, i + 1, j - 1))))
    ELSE TranslateFrom(pat, i + 1, Append(res, Literal(pat[i])))

translate(pat) == TranslateFrom(pat, 1, <<>>)

PieceMatches(piece, c) == (c \in piece.chars) # piece.neg

\* the number of consecutive one-character pieces from res[i] on
RECURSIVE FixedLen(_, _)
FixedLen(res, i) ==
    IF i > Len(res) \/ res[i] = STAR THEN 0 ELSE 1 + FixedLen(res, i + 1)

\* the k pieces from res[i] on match name[q .. q+k-1]
FixedAt(res, i, k, name, q) ==
    /\ q >= 1
    /\ q + k - 1 <= Len(name)
    /\ \A d \in 0..(k - 1) : PieceMatches(res[i + d], name[q + d])

(* The regular expression translate() builds, matched against the whole    *)
(* name: the leading fixed pieces, then for every interior STAR the        *)
(* atomic group (?>.*?fixed), the shortest run followed by the fixed       *)
(* pieces with no backtracking, then for the last STAR ".*fixed" up to \Z. *)
RECURSIVE MatchFrom(_, _, _, _)
MatchFrom(res, i, name, pos) ==
    IF i > Len(res) THEN pos = Len(name) + 1
    ELSE IF res[i] # STAR
    THEN /\ pos <= Len(name)
         /\ PieceMatches(res[i], name[pos])
         /\ MatchFrom(res, i + 1, name, pos + 1)
    ELSE LET k == FixedLen(res, i + 1)
         IN  IF i + k = Len(res)
             THEN /\ Len(name) - k + 1 >= pos
                  /\ FixedAt(res, i + 1, k, name, Len(name) - k + 1)
             ELSE LET found == {q \in pos..(Len(name) + 1) : FixedAt(res, i + 1, k, name, q)}
                  IN  /\ found # {}
                      /\ MatchFrom(res, i + 1 + k, name,
                                   (CHOOSE q \in found : \A r \in found : q <= r) + k)

\* os.path.normcase is the identity on POSIX
fnmatch(name, pat) == MatchFrom(translate(pat), 1, name, 1)

----------------------------------------------------------------------------
(* is_ignored.                                                             *)

WILDCARDS == {"*", "?", "["}

\* lines 62-65
Negative(pattern) == StartsWith(pattern, <<"!">>)

\* lines 63-68: the pattern without its '!' and without one leading '/'
PatternText(pattern) ==
    LET p1 == IF Negative(pattern) THEN Tail(pattern) ELSE pattern
    IN  IF StartsWith(p1, <<SEP>>) THEN Tail(p1) ELSE p1

\* the prefix test without the separator
ExactOrPrefix(path, pat) == path = pat \/ StartsWith(path, pat)

\* line 72 and line 77: equal to pat, or below it
ExactOrBelow(path, pat) == path = pat \/ StartsWith(path, pat \o <<SEP>>)

\* line 76
IsLiteral(text) == ~ \E c \in WILDCARDS : Contains(text, c)

\* the fallback without its basename test
FnmatchPathOnly(path, text) == fnmatch(path, text)

\* line 81
FnmatchPathOrBasename(path, text) == fnmatch(path, text) \/ fnmatch(Basename(path), text)

\* lines 66-82: whether this pattern overwrites the running flag
Matches(path, pattern) ==
    LET text == PatternText(pattern)
    IN  IF EndsWith(text, <<SEP>>)
        THEN \* lines 70-74: a directory pattern, then "continue"
             ExactOrBelow(path, RStrip(text, {SEP}))
        ELSE \* lines 76-79: a literal hit continues; a literal miss falls
             \* through to the fnmatch fallback of lines 80-82
             \/ (IsLiteral(text) /\ ExactOrBelow(path, text))
             \/ FnmatchPathOrBasename(path, text)

\* the flag is only ever raised
PatternStepSticky(path, pattern, flag) ==
    IF Matches(path, pattern) THEN flag \/ ~ Negative(pattern) ELSE flag

\* one iteration of the for loop of line 61
PatternStep(path, pattern, flag) ==
    IF Matches(path, pattern) THEN ~ Negative(pattern) ELSE flag

RECURSIVE IgnoredFrom(_, _, _, _)
IgnoredFrom(path, patterns, i, flag) ==
    IF i > Len(patterns) THEN flag
    ELSE IgnoredFrom(path, patterns, i + 1, PatternStep(path, patterns[i], flag))

\* lines 50-83
is_ignored(path, patterns) == IgnoredFrom(path, patterns, 1, FALSE)

----------------------------------------------------------------------------
(* The inputs is_ignored is applied to.                                    *)

SeqsUpTo(S, n) == UNION {[1..k -> S] : k \in 1..n}

PatChars == {"a", "b", "/", "*", "?", "[", "]", "!"}

PathChars == {"a", "b", "/"}

\* a path relative to the root, with the canonical separator
IsRelativePath(p) ==
    /\ p # <<>>
    /\ p[1] # SEP
    /\ p[Len(p)] # SEP
    /\ \A i \in 1..(Len(p) - 1) : ~ (p[i] = SEP /\ p[i + 1] = SEP)

SmallPaths == {p \in SeqsUpTo(PathChars, MaxPathLen) : IsRelativePath(p)}

SmallPatterns == SeqsUpTo(PatChars, MaxPatLen)

\* the patterns the rule lists of two and more are built from
RulePatterns == {<<"a">>, <<"!", "a">>, <<"*", "b">>, <<"!", "b", "/">>}

RuleLists == UNION {[1..k -> RulePatterns] : k \in 2..MaxPatterns}

ExamplePaths == {
    <<"k", "e", "e", "p", ".", "l", "o", "g">>,
    <<"b", "u", "i", "l", "d", ".", "l", "o", "g">>,
    <<"s", "r", "c", "/", "a", "p", "p", ".", "l", "o", "g">>,
    <<"v", "e", "n", "d", "o", "r">>,
    <<"v", "e", "n", "d", "o", "r", "/", "l", "i", "b", ".", "g", "o">>,
    <<"v", "e", "n", "d", "o", "r", "e", "d", ".", "g", "o">>,
    <<"s", "r", "c", "/", "v", "e", "n", "d", "o", "r">>,
    <<"d", "i", "s", "t">>,
    <<"d", "i", "s", "t", "/", "a", "p", "p", ".", "j", "s">>,
    <<"m", "y", "d", "i", "s", "t", "/", "a", "p", "p", ".", "j", "s">>,
    <<"s", "r", "c", "/", "d", "i", "s", "t", "/", "a", "p", "p", ".", "j", "s">>,
    <<"b", "u", "i", "l", "d">>,
    <<"b", "u", "i", "l", "d", "/", "o", "u", "t", ".", "t", "x", "t">> }

ExampleLists == {
    <<<<"*", ".", "l", "o", "g">>, <<"!", "k", "e", "e", "p", ".", "l", "o", "g">>>>,
    <<<<"!", "k", "e", "e", "p", ".", "l", "o", "g">>, <<"*", ".", "l", "o", "g">>>>,
    <<<<"*", ".", "l", "o", "g">>>>,
    <<<<"/", "*", ".", "l", "o", "g">>>>,
    <<<<"v", "e", "n", "d", "o", "r">>>>,
    <<<<"/", "b", "u", "i", "l", "d">>>>,
    <<<<"d", "i", "s", "t", "/">>>>,
    <<<<"!", "d", "i", "s", "t", "/">>>>,
    <<<<"/", "s", "r", "c", "/", "*">>>>,
    <<<<"[", "!", "k", "]", "*", ".", "l", "o", "g">>>> }

IgnoreInputs ==
    ({<<p>> : p \in SmallPatterns} \X SmallPaths)
        \cup (RuleLists \X SmallPaths)
        \cup (ExampleLists \X ExamplePaths)

----------------------------------------------------------------------------
(* is_ignored as a run: one action per iteration of its for loop.          *)

InitIgnore ==
    /\ \E input \in IgnoreInputs :
          /\ ignore_patterns = input[1]
          /\ file_path = input[2]
    /\ pc = "is_ignored"
    /\ idx = 1
    /\ ignore = FALSE
    /\ fs = <<>>
    /\ git = <<>>
    /\ commits = <<>>
    /\ outfile = <<>>
    /\ pending = {}
    /\ source_files = <<>>
    /\ gathered = <<>>
    /\ cursor = 0

\* lines 61-82: the loop body, for the pattern at idx
IgnoreStep ==
    /\ pc = "is_ignored"
    /\ idx <= Len(ignore_patterns)
    /\ ignore' = PatternStep(file_path, ignore_patterns[idx], ignore)
    /\ idx' = idx + 1
    /\ UNCHANGED <<pc, file_path, ignore_patterns, fs, git, commits, outfile,
                   pending, source_files, gathered, cursor>>

\* line 83: return ignore
IgnoreReturn ==
    /\ pc = "is_ignored"
    /\ idx > Len(ignore_patterns)
    /\ pc' = "returned"
    /\ UNCHANGED <<file_path, ignore_patterns, idx, ignore, fs, git, commits,
                   outfile, pending, source_files, gathered, cursor>>

NextIgnore == IgnoreStep \/ IgnoreReturn

SpecIgnore == InitIgnore /\ [][NextIgnore]_vars

----------------------------------------------------------------------------
(* Lexicographic order of Python strings (by code point) and list.sort().  *)

CharCode ==
    (" " :> 32) @@ ("!" :> 33) @@ ("#" :> 35) @@ ("*" :> 42) @@ ("." :>
    46) @@ ("/" :> 47) @@ ("?" :> 63) @@ ("A" :> 65) @@ ("D" :> 68) @@
    ("E" :> 69) @@ ("H" :> 72) @@ ("M" :> 77) @@ ("R" :> 82) @@ ("[" :>
    91) @@ ("]" :> 93) @@ ("a" :> 97) @@ ("b" :> 98) @@ ("c" :> 99) @@
    ("d" :> 100) @@ ("e" :> 101) @@ ("f" :> 102) @@ ("g" :> 103) @@ ("i"
    :> 105) @@ ("k" :> 107) @@ ("l" :> 108) @@ ("m" :> 109) @@ ("n" :>
    110) @@ ("o" :> 111) @@ ("p" :> 112) @@ ("r" :> 114) @@ ("s" :> 115)
    @@ ("t" :> 116) @@ ("u" :> 117) @@ ("y" :> 121)

RECURSIVE LexLess(_, _)
\* a < b for Python strings
LexLess(a, b) ==
    IF b = <<>> THEN FALSE
    ELSE IF a = <<>> THEN TRUE
    ELSE IF a[1] = b[1] THEN LexLess(Tail(a), Tail(b))
    ELSE CharCode[a[1]] < CharCode[b[1]]

\* the sequence without its element at position i
RemoveAt(seq, i) == SubSeq(seq, 1, i - 1) \o SubSeq(seq, i + 1, Len(seq))

\* the list left as the walk produced it
ListUnsorted(seq) == seq

RECURSIVE ListSort(_)
\* list.sort(): ascending, equal elements kept
ListSort(seq) ==
    IF seq = <<>> THEN <<>>
    ELSE LET i == CHOOSE k \in 1..Len(seq) :
                     \A j \in 1..Len(seq) :
                         /\ ~ LexLess(seq[j], seq[k])
                         /\ (seq[j] = seq[k] => k <= j)
         IN  <<seq[i]>> \o ListSort(RemoveAt(seq, i))

----------------------------------------------------------------------------
(* The working directory.  fs.files are the readable regular files,        *)
(* fs.unreadable the files whose open() fails, fs.broken the symbolic      *)
(* links to nothing, fs.unlistable the directories scandir() fails on;     *)
(* fs.lines is the content of .gitignore.  Directories are the proper      *)
(* prefixes of the entries' paths.                                         *)

README == <<"R", "E", "A", "D", "M", "E", ".", "m", "d">>

GITIGNORE == <<".", "g", "i", "t", "i", "g", "n", "o", "r", "e">>

OUTPUT == <<"r", "e", "p", "o", "e", "d", ".", "m", "d">>

GIT == <<".", "g", "i", "t">>

GITHEAD == <<".", "g", "i", "t", "/", "H", "E", "A", "D">>

DOCS_README == <<"d", "o", "c", "s", "/", "R", "E", "A", "D", "M", "E", ".", "m", "d">>

KEEP_LOG == <<"k", "e", "e", "p", ".", "l", "o", "g">>

BUILD_LOG == <<"b", "u", "i", "l", "d", ".", "l", "o", "g">>

NESTED_GIT == <<"s", "u", "b", "/", ".", "g", "i", "t", "/", "c", "o", "n", "f", "i", "g">>

DANGLING == <<"d", "a", "n", "g", "l", "i", "n", "g">>

BLOB == <<"b", "l", "o", "b", ".", "b", "i", "n">>

LOCKED == <<"l", "o", "c", "k", "e", "d">>

LOCKED_KEY == <<"l", "o", "c", "k", "e", "d", "/", "k", "e", "y">>

Entries(f) == f.files \cup f.unreadable \cup f.broken

\* os.path.isdir
IsDir(f, d) == \E p \in Entries(f) : StartsWith(p, d \o <<SEP>>)

\* os.path.exists: follows symbolic links, so a broken link does not exist
Exists(f, p) == p \in f.files \/ p \in f.unreadable \/ IsDir(f, p)

\* the directory part of an entry's path, <<>> for an entry of the root
DirOf(p) == SubSeq(p, 1, Len(p) - Len(Basename(p)) - 1)

\* the directories an entry lies in, outermost first
AncestorDirs(p) == {SubSeq(p, 1, i - 1) : i \in {j \in 1..Len(p) : p[j] = SEP}}

\* lines 91-93: os.walk(".") with ".git" removed from dirs at every level;
\* os.walk skips a directory it cannot list (onerror is None) and reports
\* every entry that is not a directory, broken links included, in files
Walked(f) ==
    {p \in Entries(f) :
        \A d \in AncestorDirs(p) : Basename(d) # GIT /\ d \notin f.unlistable}

\* the root os.walk reports for an entry: "." or "./<directory>"
WalkRoot(p) == IF DirOf(p) = <<>> THEN <<".">> ELSE <<".", SEP>> \o DirOf(p)

\* lines 95-97: os.path.join(root, file) without a leading "./"
JoinStripped(root, file) ==
    LET joined == root \o <<SEP>> \o file
    IN  IF StartsWith(joined, <<".", SEP>>) THEN SubSeq(joined, 3, Len(joined)) ELSE joined

rel_path(p) == JoinStripped(WalkRoot(p), Basename(p))

\* the exclusion set without the output file
ExcludeWithoutOutput == {README, GITIGNORE}

\* line 150
exclude_files == {README, GITIGNORE, OUTPUT}

\* lines 38-48
RECURSIVE KeptLines(_)
KeptLines(lines) ==
    IF lines = <<>> THEN <<>>
    ELSE LET line == Strip(lines[1])
         IN  IF line # <<>> /\ line[1] # "#"
             THEN <<line>> \o KeptLines(Tail(lines))
             ELSE KeptLines(Tail(lines))

read_gitignore(f) == IF Exists(f, GITIGNORE) THEN KeptLines(f.lines) ELSE <<>>

\* the fixed texts main writes
LAST_COMMITS == <<"L", "a", "s", "t", " ", "C", "o", "m", "m", "i", "t", "s">>

NOT_COMMITTED == <<"N", "o", "t", " ", "c", "o", "m", "m", "i", "t", "t", "e", "d", " ", "y", "e", "t">>

DOES_NOT_EXIST == <<"D", "o", "e", "s", " ", "n", "o", "t", " ", "e", "x", "i", "s", "t">>

\* what read_file_content returns for a path: its content, or the message
CONTENT_OF == <<"c", "o", "n", "t", "e", "n", "t", " ", "o", "f">>

ERROR_READING == <<"E", "r", "r", "o", "r", " ", "r", "e", "a", "d", "i", "n", "g", " ", "f", "i", "l", "e", ":">>

\* lines 105-111: the content, or the error message, of a path
read_file_content(f, p) ==
    IF p \in f.files
    THEN [kind |-> "body", text |-> CONTENT_OF, path |-> p]
    ELSE [kind |-> "body", text |-> ERROR_READING, path |-> p]

----------------------------------------------------------------------------
(* The revision-history provider: git.status is "missing" (the executable  *)
(* cannot be started), "error" (git exits non-zero) or "ok"; git.history   *)
(* holds the subjects of the commits, most recent first.                   *)

Take(seq, n) == SubSeq(seq, 1, IF Len(seq) < n THEN Len(seq) ELSE n)

RECURSIVE Stdout(_)
\* what git log --pretty=%s prints: every subject followed by a newline
Stdout(subjects) ==
    IF subjects = <<>> THEN <<>>
    ELSE subjects[1] \o <<"\n">> \o Stdout(Tail(subjects))

\* the line boundaries of str.splitlines(): \n, \r, \v, \f, \x1c, \x1d, \x1e,
\* \x85, U+2028 and U+2029 (\x1f is none)
LineBreaks ==
    {"\n", "\r", "", "\f", "", "", "", "U+0085", "U+2028", "U+2029"}

RECURSIVE splitlines(_)
\* str.splitlines(): "\r\n" is one boundary, no empty last line
splitlines(s) ==
    LET breaks == {i \in 1..Len(s) : s[i] \in LineBreaks}
    IN  IF s = <<>> THEN <<>>
        ELSE IF breaks = {} THEN <<s>>
        ELSE LET i == CHOOSE k \in breaks : \A j \in breaks : k <= j
                 next == IF s[i] = "\r" /\ i < Len(s) /\ s[i + 1] = "\n"
                         THEN i + 2 ELSE i + 1
             IN  <<SubSeq(s, 1, i - 1)>> \o splitlines(SubSeq(s, next, Len(s)))

\* line 33: stdout.strip().splitlines()
StripSplitlines(stdout) == splitlines(Strip(stdout))

\* line 27: subprocess.run raises FileNotFoundError, which line 35 does not catch
GitCannotStart(g) == g.status = "missing"

\* check=True: CalledProcessError; git log exits 128 in a repository without commits
GitExitsNonZero(g) == g.status = "error" \/ g.history = <<>>

\* lines 21-36, when subprocess.run could start git
get_git_commits(g) ==
    IF GitExitsNonZero(g) THEN <<>>
    ELSE StripSplitlines(Stdout(Take(g.history, MaxCommits)))

----------------------------------------------------------------------------
(* The lines of repoed.md.                                                 *)

Line(kind, text, path) == [kind |-> kind, text |-> text, path |-> path]

\* "### Last Commits"
CommitsHeader == Line("h3", LAST_COMMITS, <<>>)

\* "### <path>"
PathHeader(path) == Line("h3", <<>>, path)

\* "- <text>"
Bullet(text) == Line("bullet", text, <<>>)

Blank == Line("blank", <<>>, <<>>)

\* "```"
Fence == Line("fence", <<>>, <<>>)

\* "---"
Rule == Line("rule", <<>>, <<>>)

BulletsOf(messages) == [i \in 1..Len(messages) |-> Bullet(messages[i])]

----------------------------------------------------------------------------
(* The runs of main(): the directories and providers it is started in.     *)

Entry(path, kind) == [path |-> path, kind |-> kind]

\* what a working directory may hold besides .git and .gitignore
OptionalEntries == {
    Entry(README, "file"), Entry(README, "unreadable"), Entry(README, "broken"),
    Entry(DOCS_README, "file"), Entry(KEEP_LOG, "file"), Entry(BUILD_LOG, "file"),
    Entry(NESTED_GIT, "file"), Entry(DANGLING, "broken"), Entry(BLOB, "unreadable"),
    Entry(LOCKED_KEY, "locked") }

Trees ==
    {S \in SUBSET OptionalEntries :
        /\ Cardinality(S) <= MaxFiles
        /\ \A a, b \in S : a.path = b.path => a = b}

\* the contents .gitignore may have
GitignoreFiles == {
    <<>>,
    <<<<"#", " ", "b", "u", "i", "l", "d", " ", "o", "u", "t", "p", "u", "t">>,
      <<"\f", "U+00A0", "*", ".", "l", "o", "g", "\t">>,
      <<>>,
      <<"!", "k", "e", "e", "p", ".", "l", "o", "g">>,
      <<"*", ".", "m", "d">>>>,
    <<<<"*", ".", "m", "d">>, <<"!", "R", "E", "A", "D", "M", "E", ".", "m", "d">>>> }

Providers == {
    [status |-> "missing", history |-> <<<<"i", "n", "i", "t">>>>],
    [status |-> "error", history |-> <<<<"i", "n", "i", "t">>>>],
    [status |-> "ok", history |-> <<>>],
    [status |-> "ok", history |-> <<<<>>>>],
    [status |-> "ok", history |-> <<<<"f", "i", "x", "U+00A0", "b", "u", "g">>,
                                    <<"a", "d", "d", " ", "f", "e", "a", "t", "u", "r", "e", "U+3000">>>>],
    [status |-> "ok", history |-> <<<<"\t", "d">>, <<"c">>, <<"b", " ">>, <<"a">>>>] }

FileSystem(has_git, has_gitignore, lines, tree) ==
    [files |-> {e.path : e \in {x \in tree : x.kind \in {"file", "locked"}}}
                  \cup (IF has_git THEN {GITHEAD} ELSE {})
                  \cup (IF has_gitignore THEN {GITIGNORE} ELSE {}),
     unreadable |-> {e.path : e \in {x \in tree : x.kind = "unreadable"}},
     broken |-> {e.path : e \in {x \in tree : x.kind = "broken"}},
     unlistable |-> {DirOf(e.path) : e \in {x \in tree : x.kind = "locked"}},
     lines |-> IF has_gitignore THEN lines ELSE <<>>]

Init ==
    /\ \E has_git \in BOOLEAN, has_gitignore \in BOOLEAN,
          lines \in GitignoreFiles, tree \in Trees :
          fs = FileSystem(has_git, has_gitignore, lines, tree)
    /\ git \in Providers
    /\ pc = "main"
    /\ file_path = <<>>
    /\ ignore_patterns = <<>>
    /\ idx = 0
    /\ ignore = FALSE
    /\ commits = <<>>
    /\ outfile = <<>>
    /\ pending = {}
    /\ source_files = <<>>
    /\ gathered = <<>>
    /\ cursor = 0

\* lines 114-120: main refuses to run outside a repository
CheckRepository ==
    /\ pc = "main"
    /\ pc' = IF IsDir(fs, GIT) /\ Exists(fs, GITIGNORE) THEN "read_gitignore" ELSE "exit"
    /\ UNCHANGED <<file_path, ignore_patterns, idx, ignore, fs, git, commits,
                   outfile, pending, source_files, gathered, cursor>>

\* line 123
ReadGitignore ==
    /\ pc = "read_gitignore"
    /\ ignore_patterns' = read_gitignore(fs)
    /\ pc' = "get_git_commits"
    /\ UNCHANGED <<file_path, idx, ignore, fs, git, commits, outfile, pending,
                   source_files, gathered, cursor>>

\* line 124: the call returns a list, or the exception it does not catch
\* ends the run before repoed.md is opened
GetGitCommits ==
    /\ pc = "get_git_commits"
    /\ IF GitCannotStart(git)
       THEN pc' = "crashed" /\ UNCHANGED commits
       ELSE pc' = "commits" /\ commits' = get_git_commits(git)
    /\ UNCHANGED <<file_path, ignore_patterns, idx, ignore, fs, git, outfile,
                   pending, source_files, gathered, cursor>>

\* lines 126-135: open repoed.md for writing, then the commits section
WriteCommits ==
    /\ pc = "commits"
    /\ fs' = [fs EXCEPT !.files = @ \cup {OUTPUT}]
    /\ outfile' = IF commits # <<>>
                  THEN <<CommitsHeader>> \o BulletsOf(commits) \o <<Blank>>
                  ELSE <<CommitsHeader, Bullet(NOT_COMMITTED), Blank>>
    /\ pc' = "readme"
    /\ UNCHANGED <<file_path, ignore_patterns, idx, ignore, git, commits, pending,
                   source_files, gathered, cursor>>

\* the README section written without asking is_ignored
WriteReadmeUnfiltered ==
    /\ pc = "readme"
    /\ outfile' = outfile \o <<PathHeader(README)>>
                    \o (IF Exists(fs, README)
                        THEN <<Blank, Fence, read_file_content(fs, README), Fence>>
                        ELSE <<Blank, Bullet(DOES_NOT_EXIST)>>)
                    \o <<Rule, Blank>>
    /\ pc' = "gather"
    /\ UNCHANGED <<file_path, ignore_patterns, idx, ignore, fs, git, commits,
                   pending, source_files, gathered, cursor>>

\* lines 137-147
WriteReadme ==
    /\ pc = "readme"
    /\ outfile' = outfile \o <<PathHeader(README)>>
                    \o (IF Exists(fs, README) /\ ~ is_ignored(README, ignore_patterns)
                        THEN <<Blank, Fence, read_file_content(fs, README), Fence>>
                        ELSE <<Blank, Bullet(DOES_NOT_EXIST)>>)
                    \o <<Rule, Blank>>
    /\ pc' = "gather"
    /\ UNCHANGED <<file_path, ignore_patterns, idx, ignore, fs, git, commits,
                   pending, source_files, gathered, cursor>>

\* lines 90-91: gather_source_files starts the walk of "."
StartWalk ==
    /\ pc = "gather"
    /\ source_files' = <<>>
    /\ pending' = Walked(fs)
    /\ pc' = "walk"
    /\ UNCHANGED <<file_path, ignore_patterns, idx, ignore, fs, git, commits,
                   outfile, gathered, cursor>>

\* lines 94-102, for the entry e
Visit(e) ==
    /\ source_files' = IF \/ rel_path(e) \in exclude_files
                          \/ is_ignored(rel_path(e), ignore_patterns)
                       THEN source_files
                       ELSE Append(source_files, rel_path(e))
    /\ pending' = pending \ {e}

\* the entries reach the loop in the order the directory listing yields them
VisitFile ==
    /\ pc = "walk"
    /\ \E e \in pending : Visit(e)
    /\ UNCHANGED <<pc, file_path, ignore_patterns, idx, ignore, fs, git, commits,
                   outfile, gathered, cursor>>

\* line 103 and lines 151-152: the list is returned and sorted in place
SortFiles ==
    /\ pc = "walk"
    /\ pending = {}
    /\ gathered' = source_files
    /\ source_files' = ListSort(source_files)
    /\ cursor' = 1
    /\ pc' = "render"
    /\ UNCHANGED <<file_path, ignore_patterns, idx, ignore, fs, git, commits,
                   outfile, pending>>

\* a file that cannot be read gets no section
FileLinesSkipUnreadable(f, file) ==
    IF file \in f.files
    THEN <<PathHeader(file), Blank, Fence, read_file_content(f, file), Fence, Rule, Blank>>
    ELSE <<>>

\* lines 155-160: the section of one file
FileLines(f, file) ==
    <<PathHeader(file), Blank, Fence, read_file_content(f, file), Fence, Rule, Blank>>

\* lines 154-160, one iteration
RenderFile ==
    /\ pc = "render"
    /\ cursor <= Len(source_files)
    /\ outfile' = outfile \o FileLines(fs, source_files[cursor])
    /\ cursor' = cursor + 1
    /\ UNCHANGED <<pc, file_path, ignore_patterns, idx, ignore, fs, git, commits,
                   pending, source_files, gathered>>

\* line 162: the with block closes repoed.md
Finish ==
    /\ pc = "render"
    /\ cursor > Len(source_files)
    /\ pc' = "done"
    /\ UNCHANGED <<file_path, ignore_patterns, idx, ignore, fs, git, commits,
                   outfile, pending, source_files, gathered, cursor>>

Next ==
    \/ CheckRepository
    \/ ReadGitignore
    \/ GetGitCommits
    \/ WriteCommits
    \/ WriteReadme
    \/ StartWalk
    \/ VisitFile
    \/ SortFiles
    \/ RenderFile
    \/ Finish

Spec == Init /\ [][Next]_vars

----------------------------------------------------------------------------
(* Properties of is_ignored, checked under SpecIgnore.                     *)

\* the patterns seen so far that match the path
MatchingRules(path, patterns, n) == {i \in 1..n : Matches(path, patterns[i])}

\* the last of the first n patterns that matches is not negated
LastMatchIgnores(path, patterns, n) ==
    LET hits == MatchingRules(path, patterns, n)
    IN  /\ hits # {}
        /\ ~ Negative(patterns[CHOOSE i \in hits : \A j \in hits : j <= i])

(* C1: last matching rule wins.  After every iteration the flag is true    *)
(* iff some pattern seen so far matches the path and the last one that     *)
(* matches is not negated; the loop returns only after the whole list, so  *)
(* the value returned is decided by the last matching pattern of the list  *)
(* and is false when no pattern matches.                                   *)
C1_LastMatchWins ==
    pc \in {"is_ignored", "returned"} =>
        /\ ignore = LastMatchIgnores(file_path, ignore_patterns, idx - 1)
        /\ (pc = "returned" =>
               /\ idx = Len(ignore_patterns) + 1
               /\ ignore = is_ignored(file_path, ignore_patterns))

\* ["*.log", "!keep.log"] has been applied to "keep.log": the later negation won
C1_Witness ==
    /\ pc = "returned"
    /\ file_path = <<"k", "e", "e", "p", ".", "l", "o", "g">>
    /\ ignore_patterns = <<<<"*", ".", "l", "o", "g">>, <<"!", "k", "e", "e", "p", ".", "l", "o", "g">>>>
    /\ Matches(file_path, ignore_patterns[1])
    /\ ignore = FALSE

\* a call with one pattern that is not negated has returned
SingleRule == pc = "returned" /\ Len(ignore_patterns) = 1 /\ ~ Negative(ignore_patterns[1])

TheText == PatternText(ignore_patterns[1])

(* C2: a literal pattern (no wildcard, no trailing '/') matches a path iff *)
(* the path equals the pattern text or starts with the text followed by    *)
(* the separator; in particular it matches no path in which the text is    *)
(* only a deeper segment.                                                  *)
C2_LiteralExactOrBelow ==
    (SingleRule /\ IsLiteral(TheText) /\ ~ EndsWith(TheText, <<SEP>>)) =>
        ignore = (file_path = TheText \/ StartsWith(file_path, TheText \o <<SEP>>))

(* C3: a directory-only pattern (trailing '/') matches a path iff the path *)
(* equals the pattern text without its trailing separators or starts with  *)
(* that text followed by the separator; wildcard characters in it are      *)
(* compared literally and neither the basename nor a glob is tried.        *)
C3_DirectoryOnly ==
    (SingleRule /\ EndsWith(TheText, <<SEP>>)) =>
        LET dir == RStrip(TheText, {SEP})
        IN  ignore = (file_path = dir \/ StartsWith(file_path, dir \o <<SEP>>))

\* "dist/" has been applied to "dist/app.js" and ignores it
C3_Witness ==
    /\ SingleRule
    /\ ignore_patterns = <<<<"d", "i", "s", "t", "/">>>>
    /\ file_path = <<"d", "i", "s", "t", "/", "a", "p", "p", ".", "j", "s">>
    /\ ignore = TRUE

RECURSIVE GlobMatches(_, _, _, _)
\* shell-style matching by definition: '*' stands for any run of characters,
\* separators included, every other piece for one character
GlobMatches(pieces, i, name, pos) ==
    IF i > Len(pieces) THEN pos = Len(name) + 1
    ELSE IF pieces[i] = STAR
    THEN \E q \in pos..(Len(name) + 1) : GlobMatches(pieces, i + 1, name, q)
    ELSE /\ pos <= Len(name)
         /\ PieceMatches(pieces[i], name[pos])
         /\ GlobMatches(pieces, i + 1, name, pos + 1)

Glob(name, text) == GlobMatches(translate(text), 1, name, 1)

(* C4: a pattern with a wildcard and no trailing '/' matches a path iff    *)
(* the glob matches the whole relative path or its basename, '*' matching  *)
(* any run of characters including separators.  So "*" followed by literal *)
(* text matches exactly the paths that end with that text, at every depth, *)
(* and a root-anchored glob "/g" gives the same result as "g".             *)
C4_GlobPathOrBasename ==
    (SingleRule /\ ~ IsLiteral(TheText) /\ ~ EndsWith(TheText, <<SEP>>)) =>
        /\ ignore = (Glob(file_path, TheText) \/ Glob(Basename(file_path), TheText))
        /\ (TheText[1] = "*" /\ IsLiteral(Tail(TheText)) =>
               ignore = EndsWith(file_path, Tail(TheText)))
        /\ (ignore_patterns[1][1] # SEP =>
               ignore = is_ignored(file_path, <<(<<SEP>> \o ignore_patterns[1])>>))

\* "*.log" has been applied to a .log file below the root and ignores it
C4_Witness ==
    /\ SingleRule
    /\ ignore_patterns = <<<<"*", ".", "l", "o", "g">>>>
    /\ file_path = <<"s", "r", "c", "/", "a", "p", "p", ".", "l", "o", "g">>
    /\ ignore = TRUE
    /\ is_ignored(file_path, <<<<"/", "*", ".", "l", "o", "g">>>>)

----------------------------------------------------------------------------
(* Properties of the run of main(), checked under Spec.                    *)

Range(seq) == {seq[i] : i \in 1..Len(seq)}

\* the path has a directory component named ".git"
InsideGitDirectory(p) ==
    \/ StartsWith(p, GIT \o <<SEP>>)
    \/ \E i \in 1..Len(p) : StartsWith(SubSeq(p, i, Len(p)), <<SEP>> \o GIT \o <<SEP>>)

\* the entries the traversal reports as files
Reported(f) == {p \in Entries(f) : \A d \in f.unlistable : ~ StartsWith(p, d \o <<SEP>>)}

\* what discovery has to return, as a set
Discoverable ==
    {p \in Reported(fs) :
        /\ ~ InsideGitDirectory(p)
        /\ p \notin {README, GITIGNORE, OUTPUT}
        /\ ~ is_ignored(p, ignore_patterns)}

StrictlyAscending(seq) == \A i, j \in 1..Len(seq) : i < j => LexLess(seq[i], seq[j])

(* C5: discovery is sorted and deterministic.  Whatever order the walk     *)
(* visited the entries in, the list handed to rendering is the strictly    *)
(* ascending list (so without duplicates, and the only such list) of       *)
(* exactly the reported files outside every .git directory that are not    *)
(* excluded and not ignored; no path in it starts with "./" or ".git/".    *)
C5_SortedDiscovery ==
    pc \in {"render", "done"} =>
        /\ StrictlyAscending(source_files)
        /\ Range(source_files) = Discoverable
        /\ Range(source_files) = Range(gathered)
        /\ \A i \in 1..Len(source_files) :
              /\ ~ StartsWith(source_files[i], <<".", SEP>>)
              /\ ~ StartsWith(source_files[i], GIT \o <<SEP>>)

\* the walk met two files in descending order, left out an ignored file and
\* never entered the .git directory, and the list was sorted
C5_Witness ==
    /\ pc = "render"
    /\ Len(gathered) >= 2
    /\ LexLess(gathered[2], gathered[1])
    /\ source_files # gathered
    /\ \E p \in Walked(fs) \ {README, GITIGNORE, OUTPUT} : is_ignored(p, ignore_patterns)
    /\ \E p \in Entries(fs) : InsideGitDirectory(p)

\* the headers of the sections written after the README section
FileHeaders ==
    LET hs == {i \in 1..Len(outfile) : outfile[i].kind = "h3"}
    IN  {outfile[i].path : i \in {j \in hs : \E a, b \in hs : a < b /\ b < j}}

(* C6: exclusion wins.  "README.md", ".gitignore" and "repoed.md" are      *)
(* never discovered and never head a per-file section, whatever the rules  *)
(* say; the exclusion is by equality of the relative path, so              *)
(* "docs/README.md", when reported and not ignored, has its section.       *)
C6_ExclusionWins ==
    /\ Range(source_files) \cap {README, GITIGNORE, OUTPUT} = {}
    /\ FileHeaders \cap {README, GITIGNORE, OUTPUT} = {}
    /\ (pc = "done" /\ DOCS_README \in Entries(fs)
            /\ ~ is_ignored(DOCS_README, ignore_patterns)
        => DOCS_README \in FileHeaders)

\* README.md exists and the last rule matching it un-ignores it, the three
\* excluded files were all walked, and docs/README.md has its section
C6_Witness ==
    /\ pc = "done"
    /\ {README, GITIGNORE, OUTPUT} \subseteq Walked(fs)
    /\ MatchingRules(README, ignore_patterns, Len(ignore_patterns)) # {}
    /\ ~ is_ignored(README, ignore_patterns)
    /\ DOCS_README \in FileHeaders

\* a section: a header line, the body, the trailer
Section(header, body, trailer) == <<header>> \o body \o trailer

Fenced(line) == <<Blank, Fence, line, Fence>>

CommitsSection(messages) ==
    Section(CommitsHeader,
            IF messages = <<>> THEN <<Bullet(NOT_COMMITTED)>> ELSE BulletsOf(messages),
            <<Blank>>)

ReadmeShown == Exists(fs, README) /\ ~ is_ignored(README, ignore_patterns)

ReadmeSection ==
    Section(PathHeader(README),
            IF ReadmeShown THEN Fenced(read_file_content(fs, README))
            ELSE <<Blank, Bullet(DOES_NOT_EXIST)>>,
            <<Rule, Blank>>)

RECURSIVE FileSections(_, _)
\* the sections of the first n files, in the order of the list
FileSections(files, n) ==
    IF n = 0 THEN <<>>
    ELSE FileSections(files, n - 1)
            \o Section(PathHeader(files[n]),
                       Fenced(IF files[n] \in fs.files
                              THEN Line("body", CONTENT_OF, files[n])
                              ELSE Line("body", ERROR_READING, files[n])),
                       <<Rule, Blank>>)

(* C7: the document is the commits section, the README section and one     *)
(* section per discovered file in sorted order, nothing omitted, repeated  *)
(* or reordered: while rendering, what is written is that document up to   *)
(* the current file, and at the end it is the whole of it.  No commits and *)
(* no README give placeholder bullets; a file that cannot be read has its  *)
(* section, with the error text as body, and the files after it follow.    *)
C7_DocumentLayout ==
    /\ pc = "render" =>
          outfile = CommitsSection(commits) \o ReadmeSection
                        \o FileSections(source_files, cursor - 1)
    /\ pc = "done" =>
          outfile = CommitsSection(commits) \o ReadmeSection
                        \o FileSections(source_files, Len(source_files))

\* no commits, no README, and a file that could not be read was rendered
\* before another file
C7_Witness ==
    /\ pc = "done"
    /\ commits = <<>>
    /\ ~ Exists(fs, README)
    /\ \E i \in 1..Len(source_files) :
          /\ source_files[i] \notin fs.files
          /\ i < Len(source_files)
          /\ Line("body", ERROR_READING, source_files[i]) \in Range(outfile)
          /\ Line("body", CONTENT_OF, source_files[i + 1]) \in Range(outfile)

\* where the README section starts: after the commits section
ReadmeStart == Len(CommitsSection(commits)) + 1

(* C8: the README section holds the fenced content of README.md iff        *)
(* README.md exists and is not ignored, and the bullet "- Does not exist"  *)
(* in every other case; it ends with "---" and a blank line once; and      *)
(* README.md is read into no other place of the document.                  *)
C8_ReadmeSection ==
    pc \in {"gather", "walk", "render", "done"} =>
        /\ SubSeq(outfile, ReadmeStart, ReadmeStart + Len(ReadmeSection) - 1) = ReadmeSection
        /\ \A i \in 1..Len(outfile) :
              /\ (outfile[i].kind = "body" /\ outfile[i].path = README)
                    => (ReadmeShown /\ i = ReadmeStart + 3)
              /\ outfile[i] = PathHeader(README) => i = ReadmeStart
              /\ outfile[i] = Bullet(DOES_NOT_EXIST)
                    => (~ ReadmeShown /\ i = ReadmeStart + 2)
        /\ outfile[ReadmeStart + Len(ReadmeSection)  - 2] = Rule
        /\ (Len(outfile) >= ReadmeStart + Len(ReadmeSection) =>
               outfile[ReadmeStart + Len(ReadmeSection)].kind = "h3")

\* README.md exists, is ignored, and the finished document shows the bullet
C8_Witness ==
    /\ pc = "done"
    /\ README \in fs.files
    /\ is_ignored(README, ignore_patterns)
    /\ Bullet(DOES_NOT_EXIST) \in Range(outfile)
    /\ Len(source_files) > 0

(* C9: a failure of the revision-history provider is "no history":         *)
(* whether git exits non-zero, cannot be started or there are no commits,  *)
(* get_git_commits returns the empty list without raising, the commits     *)
(* section shows "- Not committed yet" and the run goes on.                 *)
C9_ProviderFailureIsNoHistory ==
    (GitCannotStart(git) \/ GitExitsNonZero(git)) =>
        /\ pc # "crashed"
        /\ commits = <<>>
        /\ (pc \in {"readme", "gather", "walk", "render", "done"} =>
               SubSeq(outfile, 1, 3) = <<CommitsHeader, Bullet(NOT_COMMITTED), Blank>>)

\* the entries that cannot be accessed during the traversal
Inaccessible == fs.broken \cup {p \in Entries(fs) : \E d \in fs.unlistable : StartsWith(p, d \o <<SEP>>)}

(* C10: an entry that cannot be accessed during the traversal (a file of a *)
(* directory that cannot be listed, a broken symbolic link) is skipped: it *)
(* is never in the discovered list and has no section.                     *)
C10_InaccessibleSkipped ==
    /\ Range(source_files) \cap Inaccessible = {}
    /\ FileHeaders \cap Inaccessible = {}

====
